---- MODULE Spec2Model ----
(***************************************************************************)
(* fix_errors.py: a one-shot migration script.  It reads src/graphql.rs,   *)
(* rewrites tuple-style DbError constructors into struct literals with     *)
(* three regular-expression substitutions, writes the file back and prints *)
(* one confirmation line.                                                  *)
(*                                                                         *)
(* Text is a sequence of one-character strings, so that the regular        *)
(* expressions are matched character by character as re.sub does.          *)
(***************************************************************************)
EXTENDS Integers, Sequences, FiniteSets, TLC

VARIABLES
    file,           \* content of src/graphql.rs on disk, or Missing
    orig,           \* history: the file as it was when the program started
    rh,             \* read handle of line 30: "none", "open", "closed"
    wh,             \* write handle of line 35: "none", "open", "closed"
    content,        \* module-level `content` (line 31): the argument of the call
    fn_content,     \* the local `content` of fix_error_variants (lines 7-25)
    fixed_content,  \* module-level `fixed_content` (line 33)
    stdout,         \* the lines printed so far
    pc,             \* the position of the script
    err,            \* where the unhandled exception was raised, or "none"
    writes,         \* history: number of completed f.write calls
    marks,          \* history: for each character of fn_content, the rule whose
                    \* replacement produced it (0: it comes from the input)
    rematched,      \* history: a rule matched a span holding text an earlier rule produced
    run             \* which call of fix_error_variants this is (1 = the first)

vars == <<file, orig, rh, wh, content, fn_content, fixed_content, stdout, pc,
          err, writes, marks, rematched, run>>

(***************************************************************************)
(* Bounds of the model.                                                    *)
(***************************************************************************)
\* longest input of the function, in chunks (see Chunks)
MaxChunks == 4
\* longest file of the whole-program specification, in chunks
MaxFileChunks == 2
\* how many times in a row the function is applied to its own output
MaxRuns == 2

(***************************************************************************)
(* The literals of the three patterns and replacement templates.           *)
(***************************************************************************)
Missing == <<"missing">>

EnumPath == <<"D", "b", "E", "r", "r", "o", "r", ":", ":">>

InternalError == 1
InvalidData == 2
SignatureError == 3
Variants == {InternalError, InvalidData, SignatureError}

VariantName(v) ==
    CASE v = InternalError ->
            <<"I", "n", "t", "e", "r", "n", "a", "l", "E", "r", "r", "o", "r">>
      [] v = InvalidData ->
            <<"I", "n", "v", "a", "l", "i", "d", "D", "a", "t", "a">>
      [] v = SignatureError ->
            <<"S", "i", "g", "n", "a", "t", "u", "r", "e", "E", "r", "r", "o", "r">>

\* the literal heads of the three patterns: DbError::V\(
Openers == [v \in Variants |-> EnumPath \o VariantName(v) \o <<"(">>]

Opener(v) == Openers[v]

MessageField == <<" ", "{", " ", "m", "e", "s", "s", "a", "g", "e", ":", " ">>

\* the two fields each template appends after \1
AbsentFields(v) ==
    CASE v = InternalError ->
            <<",", " ", "c", "o", "n", "t", "e", "x", "t", ":", " ", "N", "o", "n", "e",
              ",", " ", "d", "e", "b", "u", "g", "_", "i", "n", "f", "o", ":", " ",
              "N", "o", "n", "e", " ", "}">>
      [] v = InvalidData ->
            <<",", " ", "f", "i", "e", "l", "d", ":", " ", "N", "o", "n", "e",
              ",", " ", "e", "x", "p", "e", "c", "t", "e", "d", "_", "f", "o", "r", "m",
              "a", "t", ":", " ", "N", "o", "n", "e", " ", "}">>
      [] v = SignatureError ->
            <<",", " ", "p", "u", "b", "l", "i", "c", "_", "k", "e", "y", ":", " ",
              "N", "o", "n", "e", ",", " ", "s", "i", "g", "n", "a", "t", "u", "r", "e",
              ":", " ", "N", "o", "n", "e", " ", "}">>

\* the template wrongly giving every variant the fields of InternalError
TemplateSameFields(v, arg) ==
    EnumPath \o VariantName(v) \o MessageField \o arg \o AbsentFields(InternalError)

\* the template naming the whole match (group 0) where it should name group 1
TemplateWholeMatch(v, arg) ==
    EnumPath \o VariantName(v) \o MessageField
    \o (Opener(v) \o arg \o <<")">>) \o AbsentFields(v)

\* the replacement template with \1 = arg
Template(v, arg) ==
    EnumPath \o VariantName(v) \o MessageField \o arg \o AbsentFields(v)

(***************************************************************************)
(* re.sub with the pattern  DbError::V\(([^)]+)\)                          *)
(***************************************************************************)
HasPrefixAt(text, i, p) ==
    /\ i + Len(p) - 1 <= Len(text)
    /\ \A k \in 1..Len(p) : text[i + k - 1] = p[k]

\* a greedy .+ in place of [^)]+ : the run ends at the last ")" of the text
ScanToLast(text, j) ==
    CHOOSE e \in j..(Len(text) + 1) :
        /\ e = Len(text) + 1 \/ text[e] = ")"
        /\ \A k \in (e + 1)..Len(text) : text[k] # ")"
        /\ e = Len(text) + 1 => \A k \in j..Len(text) : text[k] # ")"

\* [^)]+ is greedy: it runs from j to the first ")" or to the end of the text;
\* the result is the index where it stops
ScanArg(text, j) ==
    CHOOSE e \in j..(Len(text) + 1) :
        /\ e = Len(text) + 1 \/ text[e] = ")"
        /\ \A k \in j..(e - 1) : text[k] # ")"

\* the match of the pattern of v that starts at i ends at MatchEnd (its ")"),
\* or MatchEnd is 0 when no match starts at i
MatchEnd(text, i, v) ==
    LET a == i + Len(Opener(v))
        e == ScanArg(text, a)
    IN  IF HasPrefixAt(text, i, Opener(v)) /\ e > a /\ e <= Len(text)
        THEN e ELSE 0

\* the start of the leftmost match at or after pos, or 0
NextMatch(text, v, pos) ==
    IF \E i \in pos..Len(text) : MatchEnd(text, i, v) # 0
    THEN CHOOSE i \in pos..Len(text) :
            /\ MatchEnd(text, i, v) # 0
            /\ \A k \in pos..(i - 1) : MatchEnd(text, k, v) = 0
    ELSE 0

RECURSIVE FindAll(_, _, _)
\* the non-overlapping matches <<start, end>>, leftmost first, scanning from pos
FindAll(text, v, pos) ==
    LET i == NextMatch(text, v, pos)
    IN  IF i = 0 THEN <<>>
        ELSE <<<<i, MatchEnd(text, i, v)>>>> \o FindAll(text, v, MatchEnd(text, i, v) + 1)

\* group 1 of the match spans[1]
Group1(text, v, span) == SubSeq(text, span[1] + Len(Opener(v)), span[2] - 1)

RECURSIVE Replace(_, _, _, _)
\* the text from pos on, with every match of spans replaced by the template
Replace(text, v, spans, pos) ==
    IF spans = <<>> THEN SubSeq(text, pos, Len(text))
    ELSE SubSeq(text, pos, spans[1][1] - 1)
         \o Template(v, Group1(text, v, spans[1]))
         \o Replace(text, v, Tail(spans), spans[1][2] + 1)

re_sub(text, v) == Replace(text, v, FindAll(text, v, 1), 1)

\* lines 5-27, as one expression
fix_error_variants(text) ==
    re_sub(re_sub(re_sub(text, InternalError), InvalidData), SignatureError)

(***************************************************************************)
(* History of which rule produced which character.                         *)
(***************************************************************************)
Fill(n, x) == [k \in 1..n |-> x]

RECURSIVE ReplaceMarks(_, _, _, _, _)
\* the marks of Replace(text, v, spans, pos): kept for the text copied around the
\* matches, v for every character of a replacement
ReplaceMarks(m, text, v, spans, pos) ==
    IF spans = <<>> THEN SubSeq(m, pos, Len(m))
    ELSE SubSeq(m, pos, spans[1][1] - 1)
         \o Fill(Len(Template(v, Group1(text, v, spans[1]))), v)
         \o ReplaceMarks(m, text, v, Tail(spans), spans[1][2] + 1)

\* some match of spans covers a character an earlier rule produced
Rematches(m, spans) ==
    \E s \in 1..Len(spans) : \E k \in spans[s][1]..spans[s][2] : m[k] # 0

(***************************************************************************)
(* The inputs: texts made of a few chunks, and the two texts the           *)
(* documentation of the script works through.                              *)
(***************************************************************************)
\* the pieces the bounded inputs are made of: the three pattern heads, a ")",
\* a closed argument and a "("
Chunks == {Opener(v) : v \in Variants} \cup {<<")">>, <<"x", ")">>, <<"(">>}

RECURSIVE Flatten(_)
Flatten(cs) == IF cs = <<>> THEN <<>> ELSE Head(cs) \o Flatten(Tail(cs))

ChunkTexts(n) == { Flatten(cs) : cs \in UNION { [1..k -> Chunks] : k \in 0..n } }

ReturnErr == <<"r", "e", "t", "u", "r", "n", " ", "E", "r", "r", "(">>
Boom == <<"\"", "b", "o", "o", "m", "\"">>
Nope == <<"\"", "n", "o", "p", "e", "\"">>
BadSig == <<"\"", "b", "a", "d", " ", "s", "i", "g", "\"">>
FormatHead == <<"f", "o", "r", "m", "a", "t", "!", "(", "\"", "b", "a", "d", " ",
                "{", "}", "\"", ",", " ", "x">>

\* return Err(DbError::V(arg));
ReturnLine(v, arg) == ReturnErr \o Opener(v) \o arg \o <<")", ")", ";">>

EndToEndInput ==
    ReturnLine(InternalError, Boom) \o <<"\n">>
    \o ReturnLine(InvalidData, Nope) \o <<"\n">>
    \o ReturnLine(SignatureError, BadSig)

\* DbError::InvalidData(format!("bad {}", x))
NestedInput == Opener(InvalidData) \o FormatHead \o <<")", ")">>

Scenarios == {EndToEndInput, NestedInput}

FnInputs == ChunkTexts(MaxChunks) \cup Scenarios
FileInputs == ChunkTexts(MaxFileChunks) \cup Scenarios

ConfirmationLine == "Fixed error variants in src/graphql.rs"

(***************************************************************************)
(* The script, lines 29-38.                                                *)
(***************************************************************************)
Init ==
    /\ file \in FileInputs \cup {Missing}
    /\ orig = file
    /\ rh = "none" /\ wh = "none"
    /\ content = <<>> /\ fn_content = <<>> /\ fixed_content = <<>>
    /\ stdout = <<>>
    /\ pc = "start" /\ err = "none"
    /\ writes = 0 /\ marks = <<>> /\ rematched = FALSE /\ run = 1

\* line 30: open("src/graphql.rs", "r")
OpenRead ==
    /\ pc = "start" /\ file # Missing
    /\ rh' = "open" /\ pc' = "read_opened"
    /\ UNCHANGED <<file, orig, wh, content, fn_content, fixed_content, stdout, err,
                   writes, marks, rematched, run>>

\* a faulty line 30 that opens the file the way line 35 does
OpenReadFailTruncating ==
    /\ pc = "start"
    /\ pc' = "error" /\ err' = "open_read"
    /\ file' = <<>>
    /\ UNCHANGED <<orig, rh, wh, content, fn_content, fixed_content, stdout,
                   writes, marks, rematched, run>>

\* line 30 raises: the file is missing, or it may not be read
OpenReadFail ==
    /\ pc = "start"
    /\ pc' = "error" /\ err' = "open_read"
    /\ UNCHANGED <<file, orig, rh, wh, content, fn_content, fixed_content, stdout,
                   writes, marks, rematched, run>>

\* line 31: content = f.read()
ReadAll ==
    /\ pc = "read_opened"
    /\ content' = file /\ pc' = "read_done"
    /\ UNCHANGED <<file, orig, rh, wh, fn_content, fixed_content, stdout, err,
                   writes, marks, rematched, run>>

\* line 31 raises (the bytes are not text): the with statement closes the handle
ReadFail ==
    /\ pc = "read_opened"
    /\ rh' = "closed" /\ pc' = "error" /\ err' = "read"
    /\ UNCHANGED <<file, orig, wh, content, fn_content, fixed_content, stdout,
                   writes, marks, rematched, run>>

\* the end of the with block of lines 30-31
CloseRead ==
    /\ pc = "read_done"
    /\ rh' = "closed" /\ pc' = "Loaded"
    /\ UNCHANGED <<file, orig, wh, content, fn_content, fixed_content, stdout, err,
                   writes, marks, rematched, run>>

\* lines 7-11, entered by the call of line 33
Rule1 ==
    /\ pc = "Loaded"
    /\ LET spans == FindAll(content, InternalError, 1)
       IN  /\ fn_content' = Replace(content, InternalError, spans, 1)
           /\ marks' = ReplaceMarks(Fill(Len(content), 0), content, InternalError,
                                    spans, 1)
    /\ rematched' = FALSE
    /\ pc' = "Rule1Applied"
    /\ UNCHANGED <<file, orig, rh, wh, content, fixed_content, stdout, err, writes, run>>

\* the re.sub of rule v applied to the local content
ApplyRule(v) ==
    LET spans == FindAll(fn_content, v, 1)
    IN  /\ fn_content' = Replace(fn_content, v, spans, 1)
        /\ marks' = ReplaceMarks(marks, fn_content, v, spans, 1)
        /\ rematched' = (rematched \/ Rematches(marks, spans))

\* lines 14-18
Rule2 ==
    /\ pc = "Rule1Applied"
    /\ ApplyRule(InvalidData)
    /\ pc' = "Rule2Applied"
    /\ UNCHANGED <<file, orig, rh, wh, content, fixed_content, stdout, err, writes, run>>

\* lines 21-25
Rule3 ==
    /\ pc = "Rule2Applied"
    /\ ApplyRule(SignatureError)
    /\ pc' = "Rule3Applied"
    /\ UNCHANGED <<file, orig, rh, wh, content, fixed_content, stdout, err, writes, run>>

\* line 27 and the assignment of line 33
Return ==
    /\ pc = "Rule3Applied"
    /\ fixed_content' = fn_content /\ pc' = "Returned"
    /\ UNCHANGED <<file, orig, rh, wh, content, fn_content, stdout, err, writes,
                   marks, rematched, run>>

\* line 35: open("src/graphql.rs", "w") truncates the file
OpenWrite ==
    /\ pc = "Returned"
    /\ wh' = "open" /\ file' = <<>> /\ pc' = "write_opened"
    /\ UNCHANGED <<orig, rh, content, fn_content, fixed_content, stdout, err, writes,
                   marks, rematched, run>>

\* line 35 raises and the exception is swallowed: the script goes on to line 38
OpenWriteFailSwallowed ==
    /\ pc = "Returned"
    /\ pc' = "Written" /\ err' = "open_write"
    /\ UNCHANGED <<file, orig, rh, wh, content, fn_content, fixed_content, stdout,
                   writes, marks, rematched, run>>

\* line 35 raises: the file may not be written
OpenWriteFail ==
    /\ pc = "Returned"
    /\ pc' = "error" /\ err' = "open_write"
    /\ UNCHANGED <<file, orig, rh, wh, content, fn_content, fixed_content, stdout,
                   writes, marks, rematched, run>>

\* line 36 writing the text that was read instead of the text that was fixed
WriteUnfixed ==
    /\ pc = "write_opened"
    /\ file' = content /\ writes' = writes + 1 /\ pc' = "write_done"
    /\ UNCHANGED <<orig, rh, wh, content, fn_content, fixed_content, stdout, err,
                   marks, rematched, run>>

\* line 36 writing a line, as print(fixed_content, file=f) would
WriteWithNewline ==
    /\ pc = "write_opened"
    /\ file' = fixed_content \o <<"\n">> /\ writes' = writes + 1 /\ pc' = "write_done"
    /\ UNCHANGED <<orig, rh, wh, content, fn_content, fixed_content, stdout, err,
                   marks, rematched, run>>

\* line 36: f.write(fixed_content)
Write ==
    /\ pc = "write_opened"
    /\ file' = fixed_content /\ writes' = writes + 1 /\ pc' = "write_done"
    /\ UNCHANGED <<orig, rh, wh, content, fn_content, fixed_content, stdout, err,
                   marks, rematched, run>>

\* line 36 raises (or the flush of the closing handle does): some prefix of the
\* text has reached the file, and the with statement closes the handle
WriteFail ==
    /\ pc = "write_opened"
    /\ \E k \in 0..Len(fixed_content) : file' = SubSeq(fixed_content, 1, k)
    /\ wh' = "closed" /\ pc' = "error" /\ err' = "write"
    /\ UNCHANGED <<orig, rh, content, fn_content, fixed_content, stdout, writes,
                   marks, rematched, run>>

\* the end of the with block of lines 35-36
CloseWrite ==
    /\ pc = "write_done"
    /\ wh' = "closed" /\ pc' = "Written"
    /\ UNCHANGED <<file, orig, rh, content, fn_content, fixed_content, stdout, err,
                   writes, marks, rematched, run>>

\* line 38
Confirm ==
    /\ pc = "Written"
    /\ stdout' = Append(stdout, ConfirmationLine) /\ pc' = "done"
    /\ UNCHANGED <<file, orig, rh, wh, content, fn_content, fixed_content, err,
                   writes, marks, rematched, run>>

Next ==
    \/ OpenRead \/ OpenReadFail \/ ReadAll \/ ReadFail \/ CloseRead
    \/ Rule1 \/ Rule2 \/ Rule3 \/ Return
    \/ OpenWrite \/ OpenWriteFail \/ Write \/ WriteFail \/ CloseWrite
    \/ Confirm

Spec == Init /\ [][Next]_vars

(***************************************************************************)
(* The function alone: fix_error_variants called on a text, and called     *)
(* again on what it returned.                                              *)
(***************************************************************************)
InitFn ==
    /\ content \in FnInputs
    /\ file = content /\ orig = content
    /\ rh = "closed" /\ wh = "none"
    /\ fn_content = <<>> /\ fixed_content = <<>>
    /\ stdout = <<>>
    /\ pc = "Loaded" /\ err = "none"
    /\ writes = 0 /\ marks = <<>> /\ rematched = FALSE /\ run = 1

\* the function is called on its own result
CallAgain ==
    /\ pc = "Returned" /\ run < MaxRuns
    /\ content' = fixed_content
    /\ fn_content' = <<>> /\ marks' = <<>> /\ rematched' = FALSE
    /\ run' = run + 1 /\ pc' = "Loaded"
    /\ UNCHANGED <<file, orig, rh, wh, fixed_content, stdout, err, writes>>

NextFn == Rule1 \/ Rule2 \/ Rule3 \/ Return \/ CallAgain

SpecFn == InitFn /\ [][NextFn]_vars

(***************************************************************************)
(* What the claims speak of, stated without the operators of re_sub.       *)
(***************************************************************************)
Contains(text, sub) ==
    \E i \in 1..(Len(text) - Len(sub) + 1) : HasPrefixAt(text, i, sub)

\* the index of the first ")" at or after a, or Len(text) + 1
FirstClose(text, a) ==
    IF \E e \in a..Len(text) : text[e] = ")"
    THEN CHOOSE e \in a..Len(text) :
            text[e] = ")" /\ \A k \in a..(e - 1) : text[k] # ")"
    ELSE Len(text) + 1

OpenerAt(text, k) == \E v \in Variants : HasPrefixAt(text, k, Opener(v))

NoOpenerWithin(text, lo, hi) == \A k \in lo..hi : ~OpenerAt(text, k)

NoOpener(text) == NoOpenerWithin(text, 1, Len(text))

\* a well-formed call DbError::V(X) starts at i: X is not empty and holds no parenthesis
CallAt(text, i, v) ==
    LET a == i + Len(Opener(v))
        j == FirstClose(text, a)
    IN  /\ HasPrefixAt(text, i, Opener(v))
        /\ j > a /\ j <= Len(text)
        /\ \A k \in a..(j - 1) : text[k] # "("

\* the X of the call that starts at i
ArgAt(text, i, v) ==
    SubSeq(text, i + Len(Opener(v)), FirstClose(text, i + Len(Opener(v))) - 1)

\* the text before, and the text after, the call that starts at i
Before(text, i) == SubSeq(text, 1, i - 1)
After(text, i, v) == SubSeq(text, FirstClose(text, i + Len(Opener(v))) + 1, Len(text))

\* no DbError::V( stands between another DbError::W( and the first ")" after it
\* (or the end of the text, when no ")" follows)
NoNestedOpener(text) ==
    \A k \in 1..Len(text) : \A v \in Variants :
        HasPrefixAt(text, k, Opener(v))
            => NoOpenerWithin(text, k + 1, FirstClose(text, k + Len(Opener(v))))

\* the call at i is inside no other match: every DbError::W( before it is followed,
\* before i, by a ")" with no DbError::V( in between
TopLevel(text, i) ==
    \A k \in 1..(i - 1) : \A v \in Variants :
        HasPrefixAt(text, k, Opener(v))
            => /\ FirstClose(text, k + Len(Opener(v))) < i
               /\ NoOpenerWithin(text, k + 1, FirstClose(text, k + Len(Opener(v))))

NoVariantName(text) ==
    \A v \in Variants : ~Contains(text, VariantName(v))

StructInternalErrorHead ==
    <<"D", "b", "E", "r", "r", "o", "r", ":", ":", "I", "n", "t", "e", "r", "n", "a",
      "l", "E", "r", "r", "o", "r", " ", "{", " ", "m", "e", "s", "s", "a", "g", "e",
      ":", " ">>

StructInternalErrorTail ==
    <<",", " ", "c", "o", "n", "t", "e", "x", "t", ":", " ", "N", "o", "n", "e", ",",
      " ", "d", "e", "b", "u", "g", "_", "i", "n", "f", "o", ":", " ", "N", "o", "n",
      "e", " ", "}">>

StructInvalidDataHead ==
    <<"D", "b", "E", "r", "r", "o", "r", ":", ":", "I", "n", "v", "a", "l", "i", "d",
      "D", "a", "t", "a", " ", "{", " ", "m", "e", "s", "s", "a", "g", "e", ":", " ">>

StructInvalidDataTail ==
    <<",", " ", "f", "i", "e", "l", "d", ":", " ", "N", "o", "n", "e", ",", " ", "e",
      "x", "p", "e", "c", "t", "e", "d", "_", "f", "o", "r", "m", "a", "t", ":", " ",
      "N", "o", "n", "e", " ", "}">>

StructSignatureErrorHead ==
    <<"D", "b", "E", "r", "r", "o", "r", ":", ":", "S", "i", "g", "n", "a", "t", "u",
      "r", "e", "E", "r", "r", "o", "r", " ", "{", " ", "m", "e", "s", "s", "a", "g",
      "e", ":", " ">>

StructSignatureErrorTail ==
    <<",", " ", "p", "u", "b", "l", "i", "c", "_", "k", "e", "y", ":", " ", "N", "o",
      "n", "e", ",", " ", "s", "i", "g", "n", "a", "t", "u", "r", "e", ":", " ", "N",
      "o", "n", "e", " ", "}">>

\* the struct literal the documentation's table gives for variant v and message x
Struct(v, x) ==
    CASE v = InternalError -> StructInternalErrorHead \o x \o StructInternalErrorTail
      [] v = InvalidData -> StructInvalidDataHead \o x \o StructInvalidDataTail
      [] v = SignatureError -> StructSignatureErrorHead \o x \o StructSignatureErrorTail

\* the three lines the end-to-end scenario expects
EndToEndOutput ==
    <<"r", "e", "t", "u", "r", "n", " ", "E", "r", "r", "(", "D", "b", "E", "r", "r",
      "o", "r", ":", ":", "I", "n", "t", "e", "r", "n", "a", "l", "E", "r", "r", "o",
      "r", " ", "{", " ", "m", "e", "s", "s", "a", "g", "e", ":", " ", "\"", "b", "o",
      "o", "m", "\"", ",", " ", "c", "o", "n", "t", "e", "x", "t", ":", " ", "N", "o",
      "n", "e", ",", " ", "d", "e", "b", "u", "g", "_", "i", "n", "f", "o", ":", " ",
      "N", "o", "n", "e", " ", "}", ")", ";", "\n", "r", "e", "t", "u", "r", "n", " ",
      "E", "r", "r", "(", "D", "b", "E", "r", "r", "o", "r", ":", ":", "I", "n", "v",
      "a", "l", "i", "d", "D", "a", "t", "a", " ", "{", " ", "m", "e", "s", "s", "a",
      "g", "e", ":", " ", "\"", "n", "o", "p", "e", "\"", ",", " ", "f", "i", "e", "l",
      "d", ":", " ", "N", "o", "n", "e", ",", " ", "e", "x", "p", "e", "c", "t", "e",
      "d", "_", "f", "o", "r", "m", "a", "t", ":", " ", "N", "o", "n", "e", " ", "}",
      ")", ";", "\n", "r", "e", "t", "u", "r", "n", " ", "E", "r", "r", "(", "D", "b",
      "E", "r", "r", "o", "r", ":", ":", "S", "i", "g", "n", "a", "t", "u", "r", "e",
      "E", "r", "r", "o", "r", " ", "{", " ", "m", "e", "s", "s", "a", "g", "e", ":",
      " ", "\"", "b", "a", "d", " ", "s", "i", "g", "\"", ",", " ", "p", "u", "b", "l",
      "i", "c", "_", "k", "e", "y", ":", " ", "N", "o", "n", "e", ",", " ", "s", "i",
      "g", "n", "a", "t", "u", "r", "e", ":", " ", "N", "o", "n", "e", " ", "}", ")",
      ";">>

\* the known truncated form of the nested-parenthesis example
NestedOutput ==
    <<"D", "b", "E", "r", "r", "o", "r", ":", ":", "I", "n", "v", "a", "l", "i", "d",
      "D", "a", "t", "a", " ", "{", " ", "m", "e", "s", "s", "a", "g", "e", ":", " ",
      "f", "o", "r", "m", "a", "t", "!", "(", "\"", "b", "a", "d", " ", "{", "}", "\"",
      ",", " ", "x", ",", " ", "f", "i", "e", "l", "d", ":", " ", "N", "o", "n", "e",
      ",", " ", "e", "x", "p", "e", "c", "t", "e", "d", "_", "f", "o", "r", "m", "a",
      "t", ":", " ", "N", "o", "n", "e", " ", "}", ")">>

\* the literal substring InternalError(
InternalErrorParen ==
    <<"I", "n", "t", "e", "r", "n", "a", "l", "E", "r", "r", "o", "r", "(">>

(***************************************************************************)
(* C1  A call DbError::V(X), X not empty and without parenthesis, that is  *)
(* inside no other match is rewritten to the struct literal of V with X    *)
(* copied verbatim: the result is the result for the text before the call, *)
(* the struct literal, and the result for the text after it; where the     *)
(* text around the call holds no DbError::V( it is left as it was.  The    *)
(* three lines of the end-to-end scenario give exactly its three lines.    *)
(***************************************************************************)
C1_CallRewritten ==
    pc = "Returned" =>
        /\ \A v \in Variants : \A i \in 1..Len(content) :
              (CallAt(content, i, v) /\ TopLevel(content, i)) =>
                 /\ fixed_content =
                        fix_error_variants(Before(content, i))
                        \o Struct(v, ArgAt(content, i, v))
                        \o fix_error_variants(After(content, i, v))
                 /\ (NoOpener(Before(content, i)) /\ NoOpener(After(content, i, v)))
                       => fixed_content =
                              Before(content, i)
                              \o Struct(v, ArgAt(content, i, v))
                              \o After(content, i, v)
        /\ content = EndToEndInput => fixed_content = EndToEndOutput

\* a call of InvalidData with text on both sides of it has been rewritten
C1_Witness ==
    /\ pc = "Returned"
    /\ \E i \in 2..Len(content) :
          /\ CallAt(content, i, InvalidData) /\ TopLevel(content, i)
          /\ After(content, i, InvalidData) # <<>>
          /\ content # EndToEndInput

(***************************************************************************)
(* C2  (as stated) Whenever the input holds a well-formed call             *)
(* DbError::InternalError(X), the output holds the struct literal with X   *)
(* and holds no InternalError( at all.                                     *)
(***************************************************************************)
C2_AsStated ==
    pc = "Returned" =>
        \A i \in 1..Len(content) :
            CallAt(content, i, InternalError) =>
                /\ Contains(fixed_content, Struct(InternalError, ArgAt(content, i, InternalError)))
                /\ ~Contains(fixed_content, InternalErrorParen)

\* every InternalError( of the text is the head of a top-level well-formed call
EveryInternalErrorIsACall(text) ==
    \A k \in 1..Len(text) :
        HasPrefixAt(text, k, InternalErrorParen) =>
            /\ k > Len(EnumPath)
            /\ CallAt(text, k - Len(EnumPath), InternalError)
            /\ TopLevel(text, k - Len(EnumPath))

\* every DbError::InternalError( before i is followed by a ")" before i
NotInsideInternalError(text, i) ==
    \A k \in 1..(i - 1) :
        HasPrefixAt(text, k, Opener(InternalError))
            => FirstClose(text, k + Len(Opener(InternalError))) < i

(***************************************************************************)
(* C2  (amended) Whenever the input holds a well-formed call               *)
(* DbError::InternalError(X) that no earlier DbError::InternalError( is    *)
(* still open at, the output holds the struct literal with X; and when     *)
(* every InternalError( of the input is the head of a well-formed call     *)
(* inside no other match, the output holds no InternalError( .             *)
(***************************************************************************)
C2_Amended ==
    pc = "Returned" =>
        /\ \A i \in 1..Len(content) :
              (CallAt(content, i, InternalError) /\ NotInsideInternalError(content, i))
                  => Contains(fixed_content,
                              Struct(InternalError, ArgAt(content, i, InternalError)))
        /\ EveryInternalErrorIsACall(content)
              => ~Contains(fixed_content, InternalErrorParen)

\* a call of InternalError was rewritten in a text that holds another opener too
C2_Witness ==
    /\ pc = "Returned" /\ run = 1
    /\ \E i \in 2..Len(content) :
          CallAt(content, i, InternalError) /\ NotInsideInternalError(content, i)
    /\ ~NoNestedOpener(content)
    /\ ~Contains(fixed_content, InternalErrorParen)

(***************************************************************************)
(* C3  (as stated) fix_error_variants is idempotent: called on its own     *)
(* result it returns that result unchanged.                                *)
(***************************************************************************)
C3_AsStated ==
    (pc = "Returned" /\ run > 1) => fixed_content = content

(***************************************************************************)
(* C3  (amended) When no DbError::V( of the input stands between another   *)
(* DbError::W( and the first ")" after it, fix_error_variants called on    *)
(* its own result returns that result unchanged, and that result holds no  *)
(* match of any of the three patterns.                                     *)
(***************************************************************************)
C3_Amended ==
    (pc = "Returned" /\ run > 1 /\ NoNestedOpener(orig)) =>
        /\ fixed_content = content
        /\ \A v \in Variants : \A i \in 1..Len(content) :
              ~(HasPrefixAt(content, i, Opener(v))
                /\ FirstClose(content, i + Len(Opener(v))) > i + Len(Opener(v))
                /\ FirstClose(content, i + Len(Opener(v))) <= Len(content))

\* the second call has returned for an input whose first call rewrote something and
\* left a pattern head with no match in front
C3_Witness ==
    /\ pc = "Returned" /\ run > 1 /\ NoNestedOpener(orig)
    /\ orig # content
    /\ OpenerAt(content, 1)

Rank(p) ==
    CASE p = "start" -> 0
      [] p = "read_opened" -> 1
      [] p = "read_done" -> 2
      [] p = "Loaded" -> 3
      [] p = "Rule1Applied" -> 4
      [] p = "Rule2Applied" -> 5
      [] p = "Rule3Applied" -> 6
      [] p = "Returned" -> 7
      [] p = "write_opened" -> 8
      [] p = "write_done" -> 9
      [] p = "Written" -> 10
      [] p = "done" -> 11
      [] p = "error" -> 12

IsPrefix(p, text) == Len(p) <= Len(text) /\ p = SubSeq(text, 1, Len(p))

(***************************************************************************)
(* C5  When src/graphql.rs is missing or cannot be opened for reading, the *)
(* run ends in the error state: the file is never opened for writing, its  *)
(* content (or absence) is as it was, no rule has been applied, nothing is *)
(* printed, and no step follows.                                           *)
(***************************************************************************)
C5_ReadFailure ==
    /\ [](err = "open_read" =>
            /\ pc = "error" /\ file = orig
            /\ rh = "none" /\ wh = "none" /\ writes = 0
            /\ content = <<>> /\ fn_content = <<>> /\ fixed_content = <<>>
            /\ marks = <<>> /\ stdout = <<>>)
    /\ [](orig = Missing =>
            /\ file = Missing /\ pc \in {"start", "error"}
            /\ pc = "error" => err = "open_read")
    /\ [][err # "open_read"]_vars

\* the open for reading failed on a file that exists and is not empty
C5_Witness ==
    pc = "error" /\ err = "open_read" /\ orig # Missing /\ orig # <<>>

(***************************************************************************)
(* C6  (as stated) No rule matches a span that holds text produced by the  *)
(* replacement of an earlier rule.                                         *)
(***************************************************************************)
C6_AsStated == rematched = FALSE

(***************************************************************************)
(* C6  (amended) When no DbError::V( of the input stands between another   *)
(* DbError::W( and the first ")" after it, no rule matches a span that     *)
(* holds text produced by the replacement of an earlier rule.              *)
(***************************************************************************)
C6_Amended == rematched = TRUE => ~NoNestedOpener(content)

\* rules 1 and 2 have both replaced something, and rule 3 has run
C6_Witness ==
    /\ pc = "Rule3Applied" /\ NoNestedOpener(content)
    /\ \E k \in 1..Len(marks) : marks[k] = InternalError
    /\ \E k \in 1..Len(marks) : marks[k] = InvalidData
    /\ content # EndToEndInput

\* the text the next rule is applied to, and that rule
NextRule == Rank(pc) - 2
PreText == IF pc = "Loaded" THEN content ELSE fn_content

(***************************************************************************)
(* C7  Each match ends at the first ")" after the "(" of the call: the     *)
(* captured argument is not empty and holds no ")", and matches do not     *)
(* overlap.  A text that starts with DbError::V(, whose argument holds     *)
(* parentheses of its own, is split at the first ")": the rest, the outer  *)
(* ")" included, stays after the inserted " }".  The nested-parenthesis    *)
(* example gives exactly its known truncated form.                         *)
(***************************************************************************)
C7_FirstCloseEndsMatch ==
    /\ pc \in {"Loaded", "Rule1Applied", "Rule2Applied"} =>
          LET spans == FindAll(PreText, NextRule, 1)
          IN  \A s \in 1..Len(spans) :
                 LET a == spans[s][1] + Len(Opener(NextRule))
                 IN  /\ HasPrefixAt(PreText, spans[s][1], Opener(NextRule))
                     /\ spans[s][2] = FirstClose(PreText, a)
                     /\ spans[s][2] > a
                     /\ \A k \in a..(spans[s][2] - 1) : PreText[k] # ")"
                     /\ s > 1 => spans[s - 1][2] < spans[s][1]
    /\ pc = "Returned" =>
          \A v \in Variants :
             LET a == Len(Opener(v)) + 1
                 e == FirstClose(content, a)
             IN  (/\ HasPrefixAt(content, 1, Opener(v))
                  /\ e > a /\ e <= Len(content)
                  /\ NoOpenerWithin(content, 2, Len(content)))
                 => fixed_content = Struct(v, SubSeq(content, a, e - 1))
                                    \o SubSeq(content, e + 1, Len(content))
    /\ (pc = "Returned" /\ content = NestedInput) => fixed_content = NestedOutput

\* a call whose argument holds a "(" was split at its first ")", a ")" staying behind
C7_Witness ==
    /\ pc = "Returned" /\ content # NestedInput
    /\ \E v \in Variants :
          /\ HasPrefixAt(content, 1, Opener(v))
          /\ NoOpenerWithin(content, 2, Len(content))
          /\ FirstClose(content, Len(Opener(v)) + 1) < Len(content)
          /\ content[Len(Opener(v)) + 1] = "("
          /\ content[Len(content)] = ")"
          /\ fixed_content # content

(***************************************************************************)
(* C8  A run without exception goes through start, Loaded, Rule1Applied,   *)
(* Rule2Applied, Rule3Applied, Written, in that order, one step at a time, *)
(* never back: the read handle is closed before the write handle is        *)
(* opened, the file is written once, with the result of the three rules,   *)
(* and the one confirmation line is printed after the write is complete.   *)
(***************************************************************************)
C8_LinearRun ==
    /\ [][pc' # "error" => Rank(pc') = Rank(pc) + 1]_vars
    /\ [](wh # "none" => rh = "closed")
    /\ [](writes <= 1)
    /\ [](pc \in {"write_done", "Written", "done"} =>
            file = fix_error_variants(orig) /\ writes = 1)
    /\ [](pc \in {"Written", "done"} => wh = "closed")
    /\ [](stdout # <<>> => stdout = <<ConfirmationLine>> /\ pc = "done")
    /\ [](pc = "done" => stdout = <<ConfirmationLine>>)

\* a run that changed the file has printed its line
C8_Witness ==
    pc = "done" /\ file # orig /\ stdout = <<ConfirmationLine>>

(***************************************************************************)
(* C9  When the open for writing or the write fails, the run ends in the   *)
(* error state and no step follows: Written is not reached, nothing is     *)
(* printed, nothing restores the file.  The file is as the failing step    *)
(* left it: as it was when the open failed, some prefix of the new text    *)
(* (the empty one included) when the write failed.                         *)
(***************************************************************************)
C9_WriteFailure ==
    /\ [](err \in {"open_write", "write"} => pc = "error" /\ stdout = <<>>)
    /\ [](err = "open_write" => file = orig /\ wh = "none" /\ writes = 0)
    /\ [](err = "write" => wh = "closed" /\ writes = 0 /\ IsPrefix(file, fixed_content))
    /\ [][err \notin {"open_write", "write"}]_vars

\* the write failed and left a part of the new text, which is not the old text
C9_Witness ==
    /\ pc = "error" /\ err = "write"
    /\ file # <<>> /\ file # fixed_content /\ ~IsPrefix(file, orig)

\* the three rules applied in the order p[1], p[2], p[3]
RulesInOrder(text, p) == re_sub(re_sub(re_sub(text, p[1]), p[2]), p[3])

(***************************************************************************)
(* C10  (as stated) Applying the three rules in any of the six orders      *)
(* gives what fix_error_variants returns.                                  *)
(***************************************************************************)
C10_AsStated ==
    pc = "Returned" =>
        \A p \in Permutations(Variants) : RulesInOrder(content, p) = fixed_content

(***************************************************************************)
(* C10  (amended) When no DbError::V( of the input stands between another  *)
(* DbError::W( and the first ")" after it, applying the three rules in any *)
(* of the six orders gives what fix_error_variants returns.                *)
(***************************************************************************)
C10_Amended ==
    (pc = "Returned" /\ NoNestedOpener(content)) =>
        \A p \in Permutations(Variants) : RulesInOrder(content, p) = fixed_content

\* calls of two different variants have been rewritten
C10_Witness ==
    /\ pc = "Returned" /\ run = 1 /\ NoNestedOpener(content)
    /\ content # EndToEndInput
    /\ \E i, j \in 1..Len(content) :
          CallAt(content, i, SignatureError) /\ CallAt(content, j, InvalidData)

====
